---- MODULE Spec2Model ----
(***************************************************************************)
(* Model of the Python bindings in rust/src/map.rs and rust/src/set.rs:    *)
(* Map, Set, their builders and their cursors.  The pyclasses delegate to  *)
(* the fst crate; each delegated call is modelled by the algorithm the     *)
(* crate runs at that call (builder insertion with output sharing, lookup  *)
(* walk, depth-first stream, heap merge of set operations).  States of the *)
(* transducer are identified by the key prefix that reaches them; the      *)
(* registry that merges equal suffix states changes the byte encoding only *)
(* and is not represented.                                                 *)
(***************************************************************************)
EXTENDS Integers, Sequences, FiniteSets, TLC

VARIABLES
    builder,    \* the MapBuilder / SetBuilder pyclass object
    file,       \* what the builder's path holds on storage
    obj,        \* the Map / Set pyclass object in the caller's hands (or None)
    res,        \* what the last call returned
    accepted,   \* history: the (key, value) pairs of the inserts that returned Ok
    calls,      \* history: number of insert calls an unfinished builder took
    other,      \* a second Set pyclass object, the argument of set operations
    cur,        \* the cursor pyclass object in the caller's hands (or None)
    out,        \* history: what cur.__next__ has returned so far
    cur2,       \* a second cursor object over the same structure (or None)
    out2        \* history: what cur2.__next__ has returned so far

vars == <<builder, file, obj, other, res, accepted, calls, cur, out, cur2, out2>>

----------------------------------------------------------------------------
(* Bounds of the model *)

\* longest key, in bytes
MaxKeyLen == 2
\* largest value given to MapBuilder.insert
MaxVal == 2
\* number of insert calls made on one builder before it is finished
MaxCalls == 3
\* the bytes keys are made of ("a", "b")
Bytes == {97, 98}

\* Option<T>: None is the empty sequence, Some(x) the sequence holding x
None == <<>>
Some(x) == <<x>>
Unwrap(o) == o[1]

RECURSIVE KeysUpTo(_)
KeysUpTo(n) ==
    IF n = 0 THEN {<<>>}
    ELSE LET P == KeysUpTo(n - 1)
         IN  P \cup {Append(p, b) : p \in {q \in P : Len(q) = n - 1}, b \in Bytes}

Keys == KeysUpTo(MaxKeyLen)
\* the keys looked up: also the one-byte extensions of the longest keys
LookupKeys == KeysUpTo(MaxKeyLen + 1)
Vals == 0..MaxVal

Min(a, b) == IF a <= b THEN a ELSE b
Prefix(s, i) == SubSeq(s, 1, i)

\* a < b on byte strings (Rust's Ord for [u8])
RECURSIVE LexLess(_, _)
LexLess(a, b) ==
    IF b = <<>> THEN FALSE
    ELSE IF a = <<>> THEN TRUE
    ELSE IF Head(a) # Head(b) THEN Head(a) < Head(b)
    ELSE LexLess(Tail(a), Tail(b))

\* String::from_utf8_lossy on a byte string: a byte that is no valid UTF-8
\* sequence becomes U+FFFD; the one-byte sequences are the bytes below 128
FromUtf8Lossy(bs) == [i \in 1..Len(bs) |-> IF bs[i] < 128 THEN bs[i] ELSE 65533]

----------------------------------------------------------------------------
(* The transducer: eout[p] is the output on the transition into the state   *)
(* reached by prefix p, fout[p] the final output of a final state.          *)

EmptyFst == [eout |-> (<<>> :> 0), fout |-> [p \in {} |-> 0]]

Nodes(f) == DOMAIN f.eout
IsFinal(f, p) == p \in DOMAIN f.fout
Children(f, p) == {q \in Nodes(f) : Len(q) = Len(p) + 1 /\ Prefix(q, Len(p)) = p}

\* the input bytes of a state's transitions, ascending
TransBytes(f, p) == {q[Len(q)] : q \in Children(f, p)}

RECURSIVE SortedBytes(_)
SortedBytes(S) ==
    IF S = {} THEN <<>>
    ELSE LET m == CHOOSE x \in S : \A y \in S : x <= y
         IN  <<m>> \o SortedBytes(S \ {m})

\* BuilderNodeUnfinished::add_output_prefix on the state reached by p
AddOutputPrefix(f, p, add) ==
    [eout |-> [q \in Nodes(f) |->
                  IF q \in Children(f, p) THEN f.eout[q] + add ELSE f.eout[q]],
     fout |-> [q \in DOMAIN f.fout |->
                  IF q = p THEN f.fout[q] + add ELSE f.fout[q]]]

\* FindCommonPrefix with the output taken off a shared transition not pushed
\* down to the state behind it
RECURSIVE FindCommonPrefixNoPush(_, _, _, _, _)
FindCommonPrefixNoPush(f, last, bs, i, o) ==
    IF i < Len(bs) /\ i < Len(last) /\ last[i + 1] = bs[i + 1]
    THEN LET child  == Prefix(bs, i + 1)
             common == Min(f.eout[child], o)
             f1     == [f EXCEPT !.eout[child] = common]
         IN  FindCommonPrefixNoPush(f1, last, bs, i + 1, o - common)
    ELSE [i |-> i, o |-> o, f |-> f]

\* UnfinishedNodes::find_common_prefix_and_set_output: i bytes of bs already
\* matched along the previous key last (empty before the first insert: the
\* root then has no last transition); returns the prefix length, the output left
\* for the suffix, and the transducer with the shared outputs pushed down
RECURSIVE FindCommonPrefix(_, _, _, _, _)
FindCommonPrefix(f, last, bs, i, o) ==
    IF i < Len(bs) /\ i < Len(last) /\ last[i + 1] = bs[i + 1]
    THEN LET child  == Prefix(bs, i + 1)
             common == Min(f.eout[child], o)
             add    == f.eout[child] - common
             f1     == [f EXCEPT !.eout[child] = common]
             f2     == IF add > 0 THEN AddOutputPrefix(f1, child, add) ELSE f1
         IN  FindCommonPrefix(f2, last, bs, i + 1, o - common)
    ELSE [i |-> i, o |-> o, f |-> f]

\* UnfinishedNodes::add_suffix: the states of bs beyond the common prefix
AddSuffix(f, bs, n, o) ==
    LET new == {Prefix(bs, j) : j \in (n + 1)..Len(bs)}
    IN  [eout |-> [q \in Nodes(f) \cup new |->
                      IF q \in Nodes(f) THEN f.eout[q]
                      ELSE IF Len(q) = n + 1 THEN o ELSE 0],
         fout |-> [q \in DOMAIN f.fout \cup {bs} |->
                      IF q = bs THEN 0 ELSE f.fout[q]]]

\* raw::Builder::check_last_key
CheckLastKey(b, bs, check_dupe) ==
    IF b.last = None THEN "Ok"
    ELSE IF check_dupe /\ bs = Unwrap(b.last) THEN "DuplicateKey"
    ELSE IF LexLess(bs, Unwrap(b.last)) THEN "OutOfOrder"
    ELSE "Ok"

\* InsertOutput counting a key that is already there once more
InsertOutputCountsAgain(b, bs, o) ==
    IF bs = <<>>
    THEN [last |-> Some(bs), len |-> b.len + 1,
          f |-> [b.f EXCEPT !.fout = [q \in DOMAIN b.f.fout \cup {<<>>} |->
                                         IF q = <<>> THEN o ELSE b.f.fout[q]]]]
    ELSE LET last == IF b.last = None THEN <<>> ELSE Unwrap(b.last)
             r    == FindCommonPrefix(b.f, last, bs, 0, o)
         IN  IF r.i = Len(bs)
             THEN [last |-> Some(bs), len |-> b.len + 1, f |-> r.f]
             ELSE [last |-> Some(bs), len |-> b.len + 1,
                   f |-> AddSuffix(r.f, bs, r.i, r.o)]

\* raw::Builder::insert_output, after check_last_key has let the key through
InsertOutput(b, bs, o) ==
    IF bs = <<>>
    THEN [last |-> Some(bs), len |-> 1,
          f |-> [b.f EXCEPT !.fout = [q \in DOMAIN b.f.fout \cup {<<>>} |->
                                         IF q = <<>> THEN o ELSE b.f.fout[q]]]]
    ELSE LET last == IF b.last = None THEN <<>> ELSE Unwrap(b.last)
             r    == FindCommonPrefix(b.f, last, bs, 0, o)
         IN  IF r.i = Len(bs)
             THEN [last |-> Some(bs), len |-> b.len, f |-> r.f]
             ELSE [last |-> Some(bs), len |-> b.len + 1,
                   f |-> AddSuffix(r.f, bs, r.i, r.o)]

\* a builder as FstMapBuilder::memory() / FstSetBuilder::new(wtr) leave it
NewRaw == [last |-> None, len |-> 0, f |-> EmptyFst]

\* raw::Builder::insert (maps: duplicates are refused) and raw::Builder::add
\* (sets: check_dupe is false, an equal key is let through and changes nothing)
\* RawInsert remembering a refused key as the previous key
RawInsertMovesLast(b, bs, val) ==
    LET c == CheckLastKey(b, bs, TRUE)
    IN  IF c = "Ok" THEN [err |-> "", b |-> InsertOutput(b, bs, val)]
        ELSE [err |-> c, b |-> [b EXCEPT !.last = Some(bs)]]

RawInsert(b, bs, val) ==
    LET c == CheckLastKey(b, bs, TRUE)
    IN  IF c = "Ok" THEN [err |-> "", b |-> InsertOutput(b, bs, val)]
        ELSE [err |-> c, b |-> b]

RawAdd(b, bs) ==
    LET c == CheckLastKey(b, bs, FALSE)
    IN  IF c = "Ok" THEN [err |-> "", b |-> InsertOutput(b, bs, 0)]
        ELSE [err |-> c, b |-> b]

\* the bytes the builder hands over at into_inner / finish: the states and the
\* footer (key count); FstMap::new / FstSet::new read them back
Serialize(b) == [len |-> b.len, f |-> b.f]

\* raw::Fst::get: one transition per byte, outputs summed, final state needed
RECURSIVE FstGet(_, _, _, _)
FstGet(f, key, i, o) ==
    IF i = Len(key)
    THEN IF IsFinal(f, key) THEN Some(o + f.fout[key]) ELSE None
    ELSE IF Prefix(key, i + 1) \in Nodes(f)
         THEN FstGet(f, key, i + 1, o + f.eout[Prefix(key, i + 1)])
         ELSE None

----------------------------------------------------------------------------
(* Automata driving a stream: AlwaysMatch (plain enumeration), the          *)
(* Levenshtein automaton and a dense DFA (state 0 is its dead state).       *)

AlwaysMatch == [kind |-> "always"]
Dead == <<>>

\* DynamicLevenshtein::start / accept / is_match / can_match on distance rows
LevStart(a) == [i \in 1..(Len(a.query) + 1) |-> i - 1]

RECURSIVE LevRow(_, _, _, _)
LevRow(a, st, b, next) ==
    LET i == Len(next)
    IN  IF i = Len(st) THEN next
        ELSE LET cost == IF a.query[i] = b THEN 0 ELSE 1
                 v    == Min(Min(next[i] + 1, st[i + 1] + 1), st[i] + cost)
             IN  LevRow(a, st, b, Append(next, Min(v, a.dist + 1)))

LevAccept(a, st, b) == LevRow(a, st, b, <<st[1] + 1>>)
LevCanMatch(a, st) == \E i \in 1..Len(st) : st[i] <= a.dist
LevIsMatch(a, st) == st[Len(st)] <= a.dist

\* the Automaton trait as the stream calls it
AutStart(a) ==
    CASE a.kind = "always" -> <<0>>
      [] a.kind = "lev"    -> LevStart(a)
      [] a.kind = "dfa"    -> <<a.start>>

AutIsMatch(a, st) ==
    CASE a.kind = "always" -> TRUE
      [] a.kind = "lev"    -> st # Dead /\ LevIsMatch(a, st)
      [] a.kind = "dfa"    -> st[1] \in a.match

AutCanMatch(a, st) ==
    CASE a.kind = "always" -> TRUE
      [] a.kind = "lev"    -> st # Dead
      [] a.kind = "dfa"    -> st[1] # 0

AutAccept(a, st, b) ==
    CASE a.kind = "always" -> st
      [] a.kind = "lev"    -> IF st = Dead THEN Dead
                              ELSE LET n == LevAccept(a, st, b)
                                   IN  IF LevCanMatch(a, n) THEN n ELSE Dead
      [] a.kind = "dfa"    -> <<a.trans[st[1]][b]>>

----------------------------------------------------------------------------
(* raw::Stream: the depth-first walk of the transducer under an automaton   *)

\* StreamNew with the empty key's output left out
StreamNewNoEmpty(f, a) ==
    [inp   |-> <<>>,
     empty |-> None,
     stack |-> <<[node |-> <<>>, trans |-> 0, o |-> 0, aut |-> AutStart(a)]>>]

\* Stream::new with no range bounds (seek_min on an unbounded minimum)
StreamNew(f, a) ==
    [inp   |-> <<>>,
     empty |-> IF IsFinal(f, <<>>) THEN Some(f.fout[<<>>]) ELSE None,
     stack |-> <<[node |-> <<>>, trans |-> 0, o |-> 0, aut |-> AutStart(a)]>>]

PopLast(q) == SubSeq(q, 1, Len(q) - 1)

\* Stream::next_with: returns the item (None at the end) and the stream after
RECURSIVE StreamLoop(_, _, _)
StreamLoop(f, a, s) ==
    IF s.stack = <<>> THEN [item |-> None, s |-> s]
    ELSE
      LET st    == s.stack[Len(s.stack)]
          rest  == PopLast(s.stack)
          bytes == SortedBytes(TransBytes(f, st.node))
      IN  IF st.trans >= Len(bytes) \/ ~AutCanMatch(a, st.aut)
          THEN StreamLoop(f, a,
                  [s EXCEPT !.stack = rest,
                            !.inp = IF st.node # <<>> THEN PopLast(s.inp) ELSE s.inp])
          ELSE
            LET b     == bytes[st.trans + 1]
                next  == Append(st.node, b)
                o     == st.o + f.eout[next]
                naut  == AutAccept(a, st.aut, b)
                s2    == [inp   |-> Append(s.inp, b),
                          empty |-> None,
                          stack |-> rest \o
                               <<[st EXCEPT !.trans = st.trans + 1],
                                 [node |-> next, trans |-> 0, o |-> o, aut |-> naut]>>]
            IN  IF IsFinal(f, next) /\ AutIsMatch(a, naut)
                THEN [item |-> Some(<<s2.inp, o + f.fout[next]>>), s |-> s2]
                ELSE StreamLoop(f, a, s2)

\* StreamNext starting the walk over once the stack has run empty
StreamNextRewinds(f, a, s) ==
    IF s.stack = <<>>
    THEN StreamLoop(f, a, StreamNewNoEmpty(f, a))
    ELSE IF s.empty # None /\ AutIsMatch(a, AutStart(a))
    THEN [item |-> Some(<<<<>>, Unwrap(s.empty)>>), s |-> [s EXCEPT !.empty = None]]
    ELSE StreamLoop(f, a, [s EXCEPT !.empty = None])

StreamNext(f, a, s) ==
    IF s.empty # None /\ AutIsMatch(a, AutStart(a))
    THEN [item |-> Some(<<<<>>, Unwrap(s.empty)>>), s |-> [s EXCEPT !.empty = None]]
    ELSE StreamLoop(f, a, [s EXCEPT !.empty = None])

\* the stream as it is when its walk stands at key k: one stack entry per
\* prefix of k, each with the transition taken, the output summed and the
\* automaton state reached so far
RECURSIVE PathOut(_, _)
PathOut(f, p) ==
    IF p = <<>> THEN 0 ELSE PathOut(f, PopLast(p)) + f.eout[p]

RECURSIVE AutRun(_, _)
AutRun(a, p) ==
    IF p = <<>> THEN AutStart(a) ELSE AutAccept(a, AutRun(a, PopLast(p)), p[Len(p)])

TransIndex(f, p, b) == Cardinality({x \in TransBytes(f, p) : x <= b})

StreamAt(f, a, k) ==
    [inp   |-> k,
     empty |-> None,
     stack |-> [i \in 1..(Len(k) + 1) |->
                  [node  |-> Prefix(k, i - 1),
                   trans |-> IF i <= Len(k) THEN TransIndex(f, Prefix(k, i - 1), k[i])
                             ELSE 0,
                   o     |-> PathOut(f, Prefix(k, i - 1)),
                   aut   |-> AutRun(a, Prefix(k, i - 1))]]]

\* the stream with its stack empty: next returns None without a look at the
\* transducer or the automaton
StreamDone == [inp |-> <<>>, empty |-> None, stack |-> <<>>]

\* the keys the walk has not passed yet
KeysAhead(f, s) ==
    IF s.stack = <<>> THEN {}
    ELSE {k \in DOMAIN f.fout : LexLess(s.inp, k)}
         \cup (IF s.empty # None THEN {<<>>} ELSE {})

\* Stream::next_with when what it reads through a dangling reference has been
\* overwritten: the answers of the automaton (or the header fields of the
\* transducer) are arbitrary, the walk itself still runs over the bytes of
\* the transducer, so it stops at any key still ahead or runs the stack empty
StreamNextOverwritten(f, a, s) ==
    {[item |-> None, s |-> StreamDone]}
    \cup {[item |-> Some(<<k, PathOut(f, k) + f.fout[k]>>), s |-> StreamAt(f, a, k)] :
            k \in KeysAhead(f, s)}

----------------------------------------------------------------------------
(* What a call returns to Python: Ok(val) or a raised exception             *)

Ok(call, val) == [call |-> call, tag |-> "Ok", exc |-> "", msg |-> "", val |-> val]
Err(call, exc, msg) == [call |-> call, tag |-> "Err", exc |-> exc, msg |-> msg, val |-> None]

AlreadyFinished == "Builder already finished"

\* the storage behind the builder's path: nothing of an unfinished build has
\* reached it (the writer is buffered), a finished build is there whole
Partial == [complete |-> FALSE, len |-> 0, f |-> EmptyFst]
Written(bytes) == [complete |-> TRUE, len |-> bytes.len, f |-> bytes.f]

\* MapBuilder::new / SetBuilder::new with path = None or Some(p)
NewBuilder(cls, target) ==
    [cls |-> cls, inner |-> Some([target |-> target, raw |-> NewRaw])]

----------------------------------------------------------------------------
(* MapBuilder *)

\* b.insert(key, val) works on the builder in place (as_mut): what the raw
\* call leaves of it is the builder afterwards, whether it returned Ok or Err
MapBuilder_insert(key, val) ==
    /\ builder.cls = "MapBuilder"
    /\ IF builder.inner = None
       THEN /\ res' = Err("insert", "ValueError", AlreadyFinished)
            /\ UNCHANGED <<builder, accepted, calls>>
       ELSE /\ calls < MaxCalls
            /\ calls' = calls + 1
            /\ LET in == Unwrap(builder.inner)
                    r  == RawInsert(in.raw, key, val)
               IN  /\ builder' = [builder EXCEPT
                                     !.inner = Some([in EXCEPT !.raw = r.b])]
                   /\ IF r.err = ""
                      THEN /\ accepted' = Append(accepted, <<key, val>>)
                           /\ res' = Ok("insert", None)
                      ELSE /\ res' = Err("insert", "ValueError", r.err)
                           /\ UNCHANGED accepted
    /\ UNCHANGED <<file, obj, cur, out, other, cur2, out2>>

\* MapBuilder_finish with the two targets taken for each other
MapBuilder_finish_TargetsSwapped ==
    /\ builder.cls = "MapBuilder"
    /\ builder' = [builder EXCEPT !.inner = None]
    /\ IF builder.inner = None
       THEN /\ res' = Err("finish", "ValueError", AlreadyFinished)
            /\ UNCHANGED <<file, obj>>
       ELSE LET in    == Unwrap(builder.inner)
                bytes == Serialize(in.raw)
            IN  IF in.target = "File"
                THEN /\ obj' = Some([cls |-> "Map", data |-> "Vec",
                                     len |-> bytes.len, f |-> bytes.f])
                     /\ res' = Ok("finish", Some("Map"))
                     /\ UNCHANGED file
                ELSE /\ UNCHANGED obj
                     /\ \E io_ok \in BOOLEAN :
                          IF io_ok
                          THEN /\ file' = Some(Written(bytes))
                               /\ res' = Ok("finish", None)
                          ELSE /\ res' = Err("finish", "ValueError", "io")
                               /\ UNCHANGED file
    /\ UNCHANGED <<accepted, calls, cur, out, other, cur2, out2>>

MapBuilder_finish ==
    /\ builder.cls = "MapBuilder"
    /\ builder' = [builder EXCEPT !.inner = None]
    /\ IF builder.inner = None
       THEN /\ res' = Err("finish", "ValueError", AlreadyFinished)
            /\ UNCHANGED <<file, obj>>
       ELSE LET in    == Unwrap(builder.inner)
                bytes == Serialize(in.raw)
            IN  IF in.target = "Memory"
                THEN /\ obj' = Some([cls |-> "Map", data |-> "Vec",
                                     len |-> bytes.len, f |-> bytes.f])
                     /\ res' = Ok("finish", Some("Map"))
                     /\ UNCHANGED file
                ELSE /\ UNCHANGED obj
                     /\ \E io_ok \in BOOLEAN :
                          IF io_ok
                          THEN /\ file' = Some(Written(bytes))
                               /\ res' = Ok("finish", None)
                          ELSE /\ res' = Err("finish", "ValueError", "io")
                               /\ UNCHANGED file
    /\ UNCHANGED <<accepted, calls, cur, out, other, cur2, out2>>

----------------------------------------------------------------------------
(* SetBuilder *)

SetBuilder_insert(key) ==
    /\ builder.cls = "SetBuilder"
    /\ IF builder.inner = None
       THEN /\ res' = Err("insert", "ValueError", AlreadyFinished)
            /\ UNCHANGED <<builder, accepted, calls>>
       ELSE /\ calls < MaxCalls
            /\ calls' = calls + 1
            /\ LET in == Unwrap(builder.inner)
                    r  == RawAdd(in.raw, key)
               IN  /\ builder' = [builder EXCEPT
                                     !.inner = Some([in EXCEPT !.raw = r.b])]
                   /\ IF r.err = ""
                      THEN /\ accepted' = Append(accepted, <<key, 0>>)
                           /\ res' = Ok("insert", None)
                      ELSE /\ res' = Err("insert", "ValueError", r.err)
                           /\ UNCHANGED accepted
    /\ UNCHANGED <<file, obj, cur, out, other, cur2, out2>>

\* SetBuilder_finish leaving the builder in place when the write fails
SetBuilder_finish_KeepsOnError ==
    /\ builder.cls = "SetBuilder"
    /\ IF builder.inner = None
       THEN /\ res' = Err("finish", "ValueError", AlreadyFinished)
            /\ UNCHANGED <<builder, file, obj>>
       ELSE LET in    == Unwrap(builder.inner)
                bytes == Serialize(in.raw)
            IN  IF in.target = "Memory"
                THEN /\ builder' = [builder EXCEPT !.inner = None]
                     /\ obj' = Some([cls |-> "Set", data |-> "Vec",
                                     len |-> bytes.len, f |-> bytes.f])
                     /\ res' = Ok("finish", Some("Set"))
                     /\ UNCHANGED file
                ELSE /\ UNCHANGED obj
                     /\ \E io_ok \in BOOLEAN :
                          IF io_ok
                          THEN /\ builder' = [builder EXCEPT !.inner = None]
                               /\ file' = Some(Written(bytes))
                               /\ res' = Ok("finish", None)
                          ELSE /\ res' = Err("finish", "ValueError", "io")
                               /\ UNCHANGED <<builder, file>>
    /\ UNCHANGED <<accepted, calls, cur, out, other, cur2, out2>>

SetBuilder_finish ==
    /\ builder.cls = "SetBuilder"
    /\ builder' = [builder EXCEPT !.inner = None]
    /\ IF builder.inner = None
       THEN /\ res' = Err("finish", "ValueError", AlreadyFinished)
            /\ UNCHANGED <<file, obj>>
       ELSE LET in    == Unwrap(builder.inner)
                bytes == Serialize(in.raw)
            IN  IF in.target = "Memory"
                THEN /\ obj' = Some([cls |-> "Set", data |-> "Vec",
                                     len |-> bytes.len, f |-> bytes.f])
                     /\ res' = Ok("finish", Some("Set"))
                     /\ UNCHANGED file
                ELSE /\ UNCHANGED obj
                     /\ \E io_ok \in BOOLEAN :
                          IF io_ok
                          THEN /\ file' = Some(Written(bytes))
                               /\ res' = Ok("finish", None)
                          ELSE /\ res' = Err("finish", "ValueError", "io")
                               /\ UNCHANGED file
    /\ UNCHANGED <<accepted, calls, cur, out, other, cur2, out2>>

----------------------------------------------------------------------------
(* Map *)

\* Map::new(path_or_bytes): a path is memory-mapped, bytes are copied; the
\* bytes a caller can pass are those the storage holds
Open(cls, arg) ==
    IF arg = "other"
    THEN /\ res' = Err("new", "TypeError", "Argument must be a path (str) or bytes")
         /\ UNCHANGED obj
    ELSE IF file = None
    THEN /\ arg = "path"
         /\ res' = Err("new", "IOError", "open")
         /\ UNCHANGED obj
    ELSE IF ~Unwrap(file).complete
    THEN /\ res' = Err("new", "ValueError", "format")
         /\ UNCHANGED obj
    ELSE /\ obj' = Some([cls |-> cls,
                         data |-> IF arg = "path" THEN "Mmap" ELSE "Vec",
                         len |-> Unwrap(file).len, f |-> Unwrap(file).f])
         /\ res' = Ok("new", Some(cls))

Map_new(arg) ==
    /\ Open("Map", arg)
    /\ UNCHANGED <<builder, file, accepted, calls, cur, out, other, cur2, out2>>

IsMap == obj # None /\ Unwrap(obj).cls = "Map"
IsSet == obj # None /\ Unwrap(obj).cls = "Set"
inner == Unwrap(obj)

\* self.inner.get(key) / contains_key(key) / contains(key)
Lookup(key) == FstGet(inner.f, key, 0, 0)

Map___contains__(key) ==
    /\ IsMap
    /\ res' = Ok("contains", Some(Lookup(key) # None))
    /\ UNCHANGED <<builder, file, obj, accepted, calls, cur, out, other, cur2, out2>>

Map___getitem__(key) ==
    /\ IsMap
    /\ LET v == Lookup(key)
       IN  res' = IF v = None THEN Err("getitem", "KeyError", "key")
                  ELSE Ok("getitem", v)
    /\ UNCHANGED <<builder, file, obj, accepted, calls, cur, out, other, cur2, out2>>

Map___len__ ==
    /\ IsMap
    /\ res' = Ok("len", Some(inner.len))
    /\ UNCHANGED <<builder, file, obj, accepted, calls, cur, out, other, cur2, out2>>

\* OptionOr with the default taken first
OptionOrDefaultFirst(a, b) == IF b # None THEN b ELSE a

\* Option::or
OptionOr(a, b) == IF a # None THEN a ELSE b

Map_get(key, default) ==
    /\ IsMap
    /\ res' = Ok("get", OptionOr(Lookup(key), default))
    /\ UNCHANGED <<builder, file, obj, accepted, calls, cur, out, other, cur2, out2>>

\* What a cursor's stream reads through references.  The cursor object owns
\* a clone of the structure (_map, _set, _sets), which shares the byte buffer;
\* the stream was built from self.inner of the creating object and points at
\* the header fields inside that object, and a search stream points at the
\* automaton where the creating call held it, in its frame.
BufferRef == [what |-> "buffer", of |-> "cursor"]
MetaRef(owner) == [what |-> "meta", of |-> owner]
AutomatonRef == [what |-> "automaton", of |-> "frame"]

\* whether the object a reference points at is still there: the cursor's own
\* clone lives as long as the cursor, a Map or Set object until the caller
\* drops it, the frame of a call until the call returns
Alive(ref) ==
    CASE ref.of = "cursor" -> TRUE
      [] ref.of = "obj"    -> obj # None
      [] ref.of = "other"  -> other # None
      [] ref.of = "frame"  -> FALSE

Dangling(c) == \E ref \in c.refs : ~Alive(ref)

\* what a read through a dangling reference finds: the object still as it
\* was left, or whatever has been written over it since
DanglingRead == {"intact", "overwritten"}

\* the cursor pyclass: its own handle on the structure and the stream
NewCursor(cls, a) ==
    [cls |-> cls, f |-> inner.f, a |-> a, stream |-> StreamNew(inner.f, a),
     ended |-> FALSE, fault |-> FALSE, refs |-> {BufferRef, MetaRef("obj")}]

Map_keys ==
    /\ IsMap
    /\ cur' = Some(NewCursor("MapKeys", AlwaysMatch))
    /\ out' = <<>>
    /\ res' = Ok("keys", Some("MapKeys"))
    /\ UNCHANGED <<builder, file, obj, accepted, calls, other, cur2, out2>>

Map_values ==
    /\ IsMap
    /\ cur' = Some(NewCursor("MapValues", AlwaysMatch))
    /\ out' = <<>>
    /\ res' = Ok("values", Some("MapValues"))
    /\ UNCHANGED <<builder, file, obj, accepted, calls, other, cur2, out2>>

Map_items ==
    /\ IsMap
    /\ cur' = Some(NewCursor("MapItems", AlwaysMatch))
    /\ out' = <<>>
    /\ res' = Ok("items", Some("MapItems"))
    /\ UNCHANGED <<builder, file, obj, accepted, calls, other, cur2, out2>>

\* what each cursor class makes of the item its stream yields
KeyOf(item) == FromUtf8Lossy(item[1])
ValueOf(item) == item[2]
ItemOf(item) == <<FromUtf8Lossy(item[1]), item[2]>>
Conv(cls, item) ==
    IF cls \in {"MapKeys", "SetStream", "SetRegexStream", "SetLevStream"}
    THEN KeyOf(item)
    ELSE IF cls = "MapValues" THEN ValueOf(item) ELSE ItemOf(item)

\* the cursor after stream.next() returned r, and what __next__ hands back
Advance(cls, c, r) ==
    IF r.item = None
    THEN /\ cur' = Some([c EXCEPT !.stream = r.s, !.ended = TRUE])
         /\ res' = Ok("next", None)
         /\ UNCHANGED out
    ELSE /\ cur' = Some([c EXCEPT !.stream = r.s])
         /\ res' = Ok("next", Some(Conv(cls, Unwrap(r.item))))
         /\ out' = Append(out, Conv(cls, Unwrap(r.item)))

\* a read through a dangling reference that ends the process
Crash(c) ==
    /\ cur' = Some([c EXCEPT !.fault = TRUE])
    /\ res' = [call |-> "next", tag |-> "Abort", exc |-> "", msg |-> "", val |-> None]
    /\ UNCHANGED out

\* __next__ of a cursor over one stream: `slf.stream.next()` and the conversion
\* of the item.  While everything the stream points at is alive the step is
\* the stream's; once a reference dangles and the stream still has a stack to
\* work on, the read behind it decides.
CursorNext(cls) ==
    /\ cur # None
    /\ Unwrap(cur).cls = cls
    /\ ~Unwrap(cur).fault
    /\ \E c \in {Unwrap(cur)} :
         IF Dangling(c) /\ c.stream.stack # <<>>
         THEN \E read \in DanglingRead :
                IF read = "intact"
                THEN Advance(cls, c, StreamNext(c.f, c.a, c.stream))
                ELSE \/ \E r \in StreamNextOverwritten(c.f, c.a, c.stream) :
                          Advance(cls, c, r)
                     \/ Crash(c)
         ELSE Advance(cls, c, StreamNext(c.f, c.a, c.stream))
    /\ UNCHANGED <<builder, file, obj, accepted, calls, other, cur2, out2>>

MapKeys___next__ == CursorNext("MapKeys")
MapValues___next__ == CursorNext("MapValues")
MapItems___next__ == CursorNext("MapItems")

----------------------------------------------------------------------------
(* Set *)

Set_new(arg) ==
    /\ Open("Set", arg)
    /\ UNCHANGED <<builder, file, accepted, calls, cur, out, other, cur2, out2>>

Set___contains__(key) ==
    /\ IsSet
    /\ res' = Ok("contains", Some(Lookup(key) # None))
    /\ UNCHANGED <<builder, file, obj, accepted, calls, cur, out, other, cur2, out2>>

Set___len__ ==
    /\ IsSet
    /\ res' = Ok("len", Some(inner.len))
    /\ UNCHANGED <<builder, file, obj, accepted, calls, cur, out, other, cur2, out2>>

Set___iter__ ==
    /\ IsSet
    /\ cur' = Some(NewCursor("SetStream", AlwaysMatch))
    /\ out' = <<>>
    /\ res' = Ok("iter", Some("SetStream"))
    /\ UNCHANGED <<builder, file, obj, accepted, calls, other, cur2, out2>>

SetStream___next__ == CursorNext("SetStream")

----------------------------------------------------------------------------
(* Building, opening, looking up and enumerating one structure *)

Targets == {"Memory", "File"}
NewArgs == {"path", "bytes", "other"}

InitBuild ==
    /\ \E cls \in {"MapBuilder", "SetBuilder"}, target \in Targets :
         /\ builder = NewBuilder(cls, target)
         /\ file = IF target = "File" THEN Some(Partial) ELSE None
    /\ obj = None
    /\ other = None
    /\ res = Ok("new", Some("Builder"))
    /\ accepted = <<>>
    /\ calls = 0
    /\ cur = None
    /\ out = <<>>
    /\ cur2 = None
    /\ out2 = <<>>

\* the builder's calls, and opening what it wrote
BuilderStep ==
    \/ \E key \in Keys, val \in Vals : MapBuilder_insert(key, val)
    \/ MapBuilder_finish
    \/ \E key \in Keys : SetBuilder_insert(key)
    \/ SetBuilder_finish
    \/ \E arg \in NewArgs : Map_new(arg)
    \/ \E arg \in NewArgs : Set_new(arg)

NextBuild ==
    \/ BuilderStep
    \/ \E key \in LookupKeys : Map___contains__(key)
    \/ \E key \in LookupKeys : Map___getitem__(key)
    \/ Map___len__
    \/ \E key \in LookupKeys, default \in {None, Some(MaxVal + 1)} : Map_get(key, default)
    \/ \E key \in LookupKeys : Set___contains__(key)
    \/ Set___len__

SpecBuild == InitBuild /\ [][NextBuild]_vars

----------------------------------------------------------------------------
(* Building, opening and enumerating one structure: the caller builds and    *)
(* opens first, and makes no builder call once it holds a cursor            *)

NextEnum ==
    \/ (cur = None /\ BuilderStep)
    \/ Map_keys
    \/ Map_values
    \/ Map_items
    \/ MapKeys___next__
    \/ MapValues___next__
    \/ MapItems___next__
    \/ Set___iter__
    \/ SetStream___next__

SpecEnum == InitBuild /\ [][NextEnum]_vars

----------------------------------------------------------------------------
(* Properties of building, lookup and enumeration *)

AcceptedKeys == {accepted[i][1] : i \in 1..Len(accepted)}

\* the value an accepted insert gave with key k, None if no insert gave k
InsertedValue(k) ==
    IF k \in AcceptedKeys
    THEN Some(accepted[CHOOSE i \in 1..Len(accepted) : accepted[i][1] = k][2])
    ELSE None

RECURSIVE SortKeys(_)
SortKeys(S) ==
    IF S = {} THEN <<>>
    ELSE LET m == CHOOSE x \in S : \A y \in S \ {x} : LexLess(x, y)
         IN  <<m>> \o SortKeys(S \ {m})

IsProperPrefix(a, b) == Len(a) < Len(b) /\ Prefix(b, Len(a)) = a

\* C3: an insert whose key is not strictly greater than the previously
\* inserted key fails, for MapBuilder and SetBuilder, for a smaller and for an
\* equal key: the keys of the inserts that returned Ok are strictly increasing.
C3_RejectsNotGreater ==
    \A i \in 1..(Len(accepted) - 1) : LexLess(accepted[i][1], accepted[i + 1][1])

\* C4: a Map built by a MapBuilder returns, for every key, exactly the value
\* inserted with it, and absence for every key that was not inserted.
C4_GetReturnsInserted ==
    (IsMap /\ builder.cls = "MapBuilder") =>
        \A k \in LookupKeys : Lookup(k) = InsertedValue(k)

\* C4 happens: a map holding a key and an extension of it with smaller, shared
\* output has answered a subscript lookup of an absent key with not-found
C4_Witness ==
    /\ IsMap /\ builder.cls = "MapBuilder"
    /\ \E i, j \in 1..Len(accepted) :
          /\ IsProperPrefix(accepted[i][1], accepted[j][1])
          /\ accepted[i][2] > accepted[j][2] /\ accepted[j][2] > 0
    /\ res.call = "getitem" /\ res.tag = "Err"

\* what a cursor of class cls yields over the accepted inserts
ExpectedOut(cls) ==
    LET ks == SortKeys(AcceptedKeys)
    IN  [i \in 1..Len(ks) |->
            CASE cls \in {"MapKeys", "SetStream"} -> ks[i]
              [] cls = "MapValues" -> Unwrap(InsertedValue(ks[i]))
              [] cls = "MapItems"  -> <<ks[i], Unwrap(InsertedValue(ks[i]))>>]

\* C5: a cursor of keys(), values(), items() or Set iteration that has reached
\* its end has yielded exactly the inserted keys (values, pairs), each once,
\* in strictly increasing byte order.
C5_EnumerationSorted ==
    (cur # None /\ Unwrap(cur).ended) => out = ExpectedOut(Unwrap(cur).cls)

\* C5 happens: an items() cursor over a structure opened from the file a
\* builder wrote has reached its end after as many pairs as inserts were made
C5_Witness ==
    /\ cur # None /\ Unwrap(cur).ended /\ Unwrap(cur).cls = "MapItems"
    /\ file # None /\ obj # None /\ Unwrap(obj).data = "Mmap"
    /\ Len(out) = MaxCalls
    /\ \E i \in 1..Len(out) : out[i][2] > 0

FinalKeys(f) == DOMAIN f.fout

\* C10: a finish() that succeeds returns the structure holding exactly the
\* inserted keys when the builder's target is memory, and returns none, with
\* the bytes of exactly those keys on storage, when the target is a file.
C10_FinishByTarget ==
    (res.call = "finish" /\ res.tag = "Ok") =>
        IF file = None
        THEN /\ res.val # None
             /\ obj # None
             /\ FinalKeys(Unwrap(obj).f) = AcceptedKeys
        ELSE /\ res.val = None
             /\ Unwrap(file).complete
             /\ FinalKeys(Unwrap(file).f) = AcceptedKeys

\* C10 happens: a file-backed builder with keys has finished successfully
C10_Witness ==
    /\ res.call = "finish" /\ res.tag = "Ok"
    /\ file # None /\ Len(accepted) >= 2

----------------------------------------------------------------------------
(* Set operations: raw::OpBuilder and the heap of streams behind the four   *)
(* operation streams.  A slot holds the index of a stream and its current   *)
(* key; the heap hands out the slot with the smallest key.  Where a loop    *)
(* hands a rebuilt heap to its next round, the heap is bound as a value     *)
(* (x \in {e}) so that it is computed once.                                  *)

\* IntoStreamer for &Set: a stream over the whole set
SetStreamOf(set) == [f |-> set.f, s |-> StreamNew(set.f, AlwaysMatch)]

\* Set::op: a new OpBuilder with this set already added to it
Set_op(set) == <<SetStreamOf(set)>>

\* OpBuilder::add
OpAdd(streams, set) == Append(streams, SetStreamOf(set))

\* StreamHeap::refill: pull the next key of stream idx into the heap
HeapRefill(h, idx) ==
    LET r == StreamNext(h.rdrs[idx].f, AlwaysMatch, h.rdrs[idx].s)
    IN  [rdrs |-> [h.rdrs EXCEPT ![idx].s = r.s],
         heap |-> IF r.item = None THEN h.heap
                  ELSE h.heap \cup {[idx |-> idx, input |-> Unwrap(r.item)[1]]}]

RECURSIVE HeapFill(_, _)
HeapFill(h, i) ==
    IF i > Len(h.rdrs) THEN h
    ELSE CHOOSE r \in {HeapFill(h2, i + 1) : h2 \in {HeapRefill(h, i)}} : TRUE

\* StreamHeap::new
HeapNew(streams) == HeapFill([rdrs |-> streams, heap |-> {}], 1)

\* BinaryHeap::peek under Slot's ordering: the smallest key (the outputs of
\* sets are all zero; among equal keys the lower stream is taken)
HeapPeek(h) ==
    CHOOSE sl \in h.heap : \A t \in h.heap \ {sl} :
        \/ LexLess(sl.input, t.input)
        \/ (sl.input = t.input /\ sl.idx < t.idx)

HeapRemove(h, sl) == [h EXCEPT !.heap = h.heap \ {sl}]

\* the loop `while let Some(slot2) = heap.pop_if_equal(key) { heap.refill(slot2) }`:
\* returns the heap after it and the number of slots popped
RECURSIVE PopEqual(_, _, _)
PopEqual(h, key, n) ==
    IF h.heap # {} /\ HeapPeek(h).input = key
    THEN LET sl == HeapPeek(h)
         IN  CHOOSE r \in {PopEqual(h2, key, n + 1) :
                              h2 \in {HeapRefill(HeapRemove(h, sl), sl.idx)}} : TRUE
    ELSE [h |-> h, n |-> n]

\* Difference's loop over heap.pop_if_le(key): returns the heap after it and
\* whether a popped slot held the key itself
RECURSIVE PopLe(_, _, _)
PopLe(h, key, unique) ==
    IF h.heap # {} /\ ~LexLess(key, HeapPeek(h).input)
    THEN LET sl == HeapPeek(h)
         IN  CHOOSE r \in {PopLe(h2, key, u2) :
                              h2 \in {HeapRefill(HeapRemove(h, sl), sl.idx)},
                              u2 \in {unique /\ sl.input # key}} : TRUE
    ELSE [h |-> h, unique |-> unique]

\* `if let Some(slot) = self.cur_slot.take() { self.heap.refill(slot) }`
TakeCurSlot(op) ==
    IF op.cur_slot = None THEN op.h ELSE HeapRefill(op.h, Unwrap(op.cur_slot).idx)

\* one round of the three heap-driven streams: pop the smallest slot and,
\* refilling them, every further slot holding the same key
PopSameFrom(h, sl) ==
    [sl |-> sl, r |-> PopEqual(HeapRemove(h, sl), sl.input, 1)]

PopSame(h) == CHOOSE p \in {PopSameFrom(h, sl) : sl \in {HeapPeek(h)}} : TRUE

Yield(p) ==
    [item |-> Some(p.sl.input), op |-> [h |-> p.r.h, cur_slot |-> Some(p.sl)]]

Exhausted(h) == [item |-> None, op |-> [h |-> h, cur_slot |-> None]]

\* OpBuilder::union and Union::next
UnionNew(streams) == [h |-> HeapNew(streams), cur_slot |-> None]

UnionStep(h) ==
    IF h.heap = {} THEN Exhausted(h)
    ELSE CHOOSE x \in {Yield(p) : p \in {PopSame(h)}} : TRUE

UnionNext(op) == CHOOSE x \in {UnionStep(h) : h \in {TakeCurSlot(op)}} : TRUE

\* OpBuilder::intersection and Intersection::next
IntersectionNew(streams) == [h |-> HeapNew(streams), cur_slot |-> None]

RECURSIVE IntersectionLoop(_)

\* IntersectionPick taking a key held by all streams but one for a shared key
IntersectionPickOneShort(h, p) ==
    IF p.r.n < Len(h.rdrs) - 1
    THEN CHOOSE x \in {IntersectionLoop(h2) : h2 \in {HeapRefill(p.r.h, p.sl.idx)}} : TRUE
    ELSE Yield(p)

\* `if popped < self.heap.num_slots() { self.heap.refill(slot) } else { return }`
IntersectionPick(h, p) ==
    IF p.r.n < Len(h.rdrs)
    THEN CHOOSE x \in {IntersectionLoop(h2) : h2 \in {HeapRefill(p.r.h, p.sl.idx)}} : TRUE
    ELSE Yield(p)

IntersectionLoop(h) ==
    IF h.heap = {} THEN Exhausted(h)
    ELSE CHOOSE x \in {IntersectionPick(h, p) : p \in {PopSame(h)}} : TRUE

IntersectionNext(op) ==
    CHOOSE x \in {IntersectionLoop(h) : h \in {TakeCurSlot(op)}} : TRUE

\* Vec::swap_remove(0): the first stream out, the last one in its place
SwapRemoveFirst(streams) ==
    IF Len(streams) = 1 THEN <<>>
    ELSE <<streams[Len(streams)]>> \o SubSeq(streams, 2, Len(streams) - 1)

\* OpBuilder::difference and Difference::next: the first stream added is the
\* one the others are taken from
DifferenceNew(streams) ==
    [set |-> streams[1], h |-> HeapNew(SwapRemoveFirst(streams))]

RECURSIVE DifferenceNext(_)

\* the key `set` yielded, against the heap of the other streams
DifferencePick(o, key, p) ==
    IF p.unique THEN [item |-> Some(key), op |-> [o EXCEPT !.h = p.h]]
    ELSE CHOOSE x \in {DifferenceNext(o2) : o2 \in {[o EXCEPT !.h = p.h]}} : TRUE

DifferenceStep(op, r) ==
    IF r.item = None THEN [item |-> None, op |-> [op EXCEPT !.set.s = r.s]]
    ELSE CHOOSE x \in
           {DifferencePick([op EXCEPT !.set.s = r.s], Unwrap(r.item)[1], p) :
              p \in {PopLe(op.h, Unwrap(r.item)[1], TRUE)}} : TRUE

DifferenceNext(op) ==
    CHOOSE x \in {DifferenceStep(op, r) :
                    r \in {StreamNext(op.set.f, AlwaysMatch, op.set.s)}} : TRUE

\* OpBuilder::symmetric_difference and SymmetricDifference::next: a key is
\* yielded when an odd number of streams hold it
SymmetricDifferenceNew(streams) == [h |-> HeapNew(streams), cur_slot |-> None]

RECURSIVE SymmetricDifferenceLoop(_)

SymmetricDifferencePick(p) ==
    IF p.r.n % 2 = 0
    THEN CHOOSE x \in {SymmetricDifferenceLoop(h2) :
                         h2 \in {HeapRefill(p.r.h, p.sl.idx)}} : TRUE
    ELSE Yield(p)

SymmetricDifferenceLoop(h) ==
    IF h.heap = {} THEN Exhausted(h)
    ELSE CHOOSE x \in {SymmetricDifferencePick(p) : p \in {PopSame(h)}} : TRUE

SymmetricDifferenceNext(op) ==
    CHOOSE x \in {SymmetricDifferenceLoop(h) : h \in {TakeCurSlot(op)}} : TRUE

----------------------------------------------------------------------------
(* Set: the four operations and their cursors *)

HasSets == IsSet /\ other # None

\* OpStreams with the argument left out
OpStreamsWithoutOther == OpAdd(Set_op(inner), inner)

\* self.inner.op().add(&self.inner).add(&other.inner)
OpStreams == OpAdd(OpAdd(Set_op(inner), inner), Unwrap(other))

\* the streams of an operation point at the header fields of self.inner and
\* other.inner; the cursor's _sets holds clones of both, which share the
\* byte buffers
OpRefs == {BufferRef, MetaRef("obj"), MetaRef("other")}

Set_union ==
    /\ HasSets
    /\ cur' = Some([cls |-> "SetUnion", op |-> UnionNew(OpStreams),
                    ended |-> FALSE, fault |-> FALSE, refs |-> OpRefs])
    /\ out' = <<>>
    /\ res' = Ok("union", Some("SetUnion"))
    /\ UNCHANGED <<builder, file, obj, accepted, calls, other, cur2, out2>>

Set_intersection ==
    /\ HasSets
    /\ cur' = Some([cls |-> "SetIntersection", op |-> IntersectionNew(OpStreams),
                    ended |-> FALSE, fault |-> FALSE,
                    refs |-> OpRefs])
    /\ out' = <<>>
    /\ res' = Ok("intersection", Some("SetIntersection"))
    /\ UNCHANGED <<builder, file, obj, accepted, calls, other, cur2, out2>>

Set_difference ==
    /\ HasSets
    /\ cur' = Some([cls |-> "SetDifference", op |-> DifferenceNew(OpStreams),
                    ended |-> FALSE, fault |-> FALSE,
                    refs |-> OpRefs])
    /\ out' = <<>>
    /\ res' = Ok("difference", Some("SetDifference"))
    /\ UNCHANGED <<builder, file, obj, accepted, calls, other, cur2, out2>>

Set_symmetric_difference ==
    /\ HasSets
    /\ cur' = Some([cls |-> "SetSymmetricDifference",
                    op |-> SymmetricDifferenceNew(OpStreams), ended |-> FALSE, fault |-> FALSE,
                    refs |-> OpRefs])
    /\ out' = <<>>
    /\ res' = Ok("symmetric_difference", Some("SetSymmetricDifference"))
    /\ UNCHANGED <<builder, file, obj, accepted, calls, other, cur2, out2>>

\* __next__ of an operation cursor: `let bytes = slf.stream.next()?;` and the
\* conversion of the key to a Python string
OpNext(cls, op) ==
    CASE cls = "SetUnion" -> UnionNext(op)
      [] cls = "SetIntersection" -> IntersectionNext(op)
      [] cls = "SetDifference" -> DifferenceNext(op)
      [] cls = "SetSymmetricDifference" -> SymmetricDifferenceNext(op)

\* the results still ahead of an operation stream, the final None included:
\* where a read through a dangling reference lands once what it pointed at
\* has been overwritten
RECURSIVE OpNextOverwritten(_, _)
OpNextOverwritten(cls, op) ==
    UNION {IF r.item = None THEN {r} ELSE {r} \cup OpNextOverwritten(cls, r.op) :
             r \in {OpNext(cls, op)}}

OpAdvance(c, r) ==
    IF r.item = None
    THEN /\ cur' = Some([c EXCEPT !.op = r.op, !.ended = TRUE])
         /\ res' = Ok("next", None)
         /\ UNCHANGED out
    ELSE /\ cur' = Some([c EXCEPT !.op = r.op])
         /\ res' = Ok("next", Some(FromUtf8Lossy(Unwrap(r.item))))
         /\ out' = Append(out, FromUtf8Lossy(Unwrap(r.item)))

OpCursorNext(cls) ==
    /\ cur # None
    /\ Unwrap(cur).cls = cls
    /\ ~Unwrap(cur).fault
    /\ \E c \in {Unwrap(cur)} :
         IF Dangling(c) /\ ~c.ended
         THEN \E read \in DanglingRead :
                IF read = "intact"
                THEN \E r \in {OpNext(cls, c.op)} : OpAdvance(c, r)
                ELSE \/ \E r \in OpNextOverwritten(cls, c.op) : OpAdvance(c, r)
                     \/ Crash(c)
         ELSE \E r \in {OpNext(cls, c.op)} : OpAdvance(c, r)
    /\ UNCHANGED <<builder, file, obj, accepted, calls, other, cur2, out2>>

SetUnion___next__ == OpCursorNext("SetUnion")
SetIntersection___next__ == OpCursorNext("SetIntersection")
SetDifference___next__ == OpCursorNext("SetDifference")
SetSymmetricDifference___next__ ==
    OpCursorNext("SetSymmetricDifference")

----------------------------------------------------------------------------
(* Two sets, each built by a SetBuilder from at most MaxCalls keys, and the  *)
(* operations between them                                                  *)

RECURSIVE AddAll(_, _, _)
AddAll(b, ks, i) ==
    IF i > Len(ks) THEN b ELSE AddAll(RawAdd(b, ks[i]).b, ks, i + 1)

\* SetBuilder(None), insert of each key of S in order, finish()
BuiltSet(S) ==
    LET bytes == Serialize(AddAll(NewRaw, SortKeys(S), 1))
    IN  [cls |-> "Set", data |-> "Vec", len |-> bytes.len, f |-> bytes.f]

KeySets == {S \in SUBSET Keys : Cardinality(S) <= MaxCalls}

InitOps ==
    /\ builder = [cls |-> "SetBuilder", inner |-> None]
    /\ file = None
    /\ \E S \in KeySets : obj = Some(BuiltSet(S))
    /\ \E S \in KeySets : other = Some(BuiltSet(S))
    /\ res = Ok("finish", Some("Set"))
    /\ accepted = <<>>
    /\ calls = 0
    /\ cur = None
    /\ out = <<>>
    /\ cur2 = None
    /\ out2 = <<>>

NextOps ==
    \/ Set_union
    \/ Set_intersection
    \/ Set_difference
    \/ Set_symmetric_difference
    \/ SetUnion___next__
    \/ SetIntersection___next__
    \/ SetDifference___next__
    \/ SetSymmetricDifference___next__

SpecOps == InitOps /\ [][NextOps]_vars

\* membership as Set.__contains__ reports it
KeysOfSet(set) == {k \in Keys : FstGet(set.f, k, 0, 0) # None}
KeysA == KeysOfSet(inner)
KeysB == KeysOfSet(Unwrap(other))

Ended(cls) == cur # None /\ Unwrap(cur).cls = cls /\ Unwrap(cur).ended

\* C1: the cursor of A.difference(B), run to its end, has yielded exactly the
\* keys that are in A and not in B, each once, in ascending byte order.
C1_DifferenceYields ==
    Ended("SetDifference") => out = SortKeys(KeysA \ KeysB)

\* C2: the cursor of A.symmetric_difference(B), run to its end, has yielded
\* exactly the keys that are in exactly one of A and B, each once, ascending.
C2_SymmetricDifferenceYields ==
    Ended("SetSymmetricDifference") =>
        out = SortKeys((KeysA \ KeysB) \cup (KeysB \ KeysA))

\* C6: the cursor of A.union(B), run to its end, has yielded exactly the keys
\* that are in A or in B, each once, in ascending byte order.
C6_UnionYields ==
    Ended("SetUnion") => out = SortKeys(KeysA \cup KeysB)

\* C6 happens: a union of two sets that share a key and each hold a key of
\* their own has reached its end
C6_Witness ==
    /\ Ended("SetUnion")
    /\ KeysA \cap KeysB # {} /\ KeysA \ KeysB # {} /\ KeysB \ KeysA # {}
    /\ Len(out) >= 3

\* C7: the cursor of A.intersection(B), run to its end, has yielded exactly
\* the keys that are in both A and B, each once, in ascending byte order.
C7_IntersectionYields ==
    Ended("SetIntersection") => out = SortKeys(KeysA \cap KeysB)

\* C7 happens: an intersection that yielded shared keys has reached its end
\* although each set holds keys the other lacks, some beyond the last shared
C7_Witness ==
    /\ Ended("SetIntersection")
    /\ Len(out) >= 1
    /\ \E k \in KeysA \ KeysB : LexLess(out[Len(out)], k)
    /\ KeysB \ KeysA # {}

----------------------------------------------------------------------------
(* Searches: search_re and search_lev of Map and Set.  The stream is built  *)
(* over a reference to the automaton held in a local of the call (&dfa,     *)
(* &lev), the reference's lifetime is transmuted to 'static and the         *)
(* automaton is then moved into the cursor object: the stream keeps the     *)
(* address of the local, which is gone when the call has returned.          *)

\* largest max_dist given to search_lev
MaxDist == 1

Levenshtein(query, dist) == [kind |-> "lev", query |-> query, dist |-> dist]

\* dense DFAs over Bytes as an anchored build leaves them: state 0 is dead,
\* state 1 the start; t1, t2, t3 are the rows of the live states
DenseDFA(t1, t2, t3, match) ==
    [kind |-> "dfa", start |-> 1, match |-> match,
     trans |-> <<t1, t2, t3>> @@ (0 :> [b \in Bytes |-> 0])]

Row(onA, onB) == (97 :> onA) @@ (98 :> onB)

\* the automata of the patterns  a  a[ab]  a*  [ab]*b  (a|b)a  and the empty pattern
Dfas ==
    { DenseDFA(Row(2, 0), Row(0, 0), Row(0, 0), {2}),
      DenseDFA(Row(2, 0), Row(3, 3), Row(0, 0), {3}),
      DenseDFA(Row(1, 0), Row(0, 0), Row(0, 0), {1}),
      DenseDFA(Row(1, 2), Row(1, 2), Row(0, 0), {2}),
      DenseDFA(Row(2, 2), Row(3, 0), Row(0, 0), {3}),
      DenseDFA(Row(0, 0), Row(0, 0), Row(0, 0), {1}) }

NewSearchCursor(cls, a) ==
    [cls |-> cls, f |-> inner.f, a |-> a, stream |-> StreamNew(inner.f, a),
     ended |-> FALSE, fault |-> FALSE,
     refs |-> {BufferRef, MetaRef("obj"), AutomatonRef}]

Map_search_re(valid, dfa) ==
    /\ IsMap
    /\ IF ~valid
       THEN /\ res' = Err("search_re", "ValueError", "regex")
            /\ UNCHANGED <<cur, out>>
       ELSE /\ cur' = Some(NewSearchCursor("MapRegexStream", dfa))
            /\ out' = <<>>
            /\ res' = Ok("search_re", Some("MapRegexStream"))
    /\ UNCHANGED <<builder, file, obj, accepted, calls, other, cur2, out2>>

Map_search_lev(key, max_dist) ==
    /\ IsMap
    /\ cur' = Some(NewSearchCursor("MapLevStream", Levenshtein(key, max_dist)))
    /\ out' = <<>>
    /\ res' = Ok("search_lev", Some("MapLevStream"))
    /\ UNCHANGED <<builder, file, obj, accepted, calls, other, cur2, out2>>

Set_search_re(valid, dfa) ==
    /\ IsSet
    /\ IF ~valid
       THEN /\ res' = Err("search_re", "ValueError", "regex")
            /\ UNCHANGED <<cur, out>>
       ELSE /\ cur' = Some(NewSearchCursor("SetRegexStream", dfa))
            /\ out' = <<>>
            /\ res' = Ok("search_re", Some("SetRegexStream"))
    /\ UNCHANGED <<builder, file, obj, accepted, calls, other, cur2, out2>>

Set_search_lev(key, max_dist) ==
    /\ IsSet
    /\ cur' = Some(NewSearchCursor("SetLevStream", Levenshtein(key, max_dist)))
    /\ out' = <<>>
    /\ res' = Ok("search_lev", Some("SetLevStream"))
    /\ UNCHANGED <<builder, file, obj, accepted, calls, other, cur2, out2>>

\* __next__ of a search cursor: `slf.stream.next()` as for the other
\* cursors, with the stream's automaton reference dangling from the start
SearchCursorNext(cls) == CursorNext(cls)

MapRegexStream___next__ == SearchCursorNext("MapRegexStream")
MapLevStream___next__ == SearchCursorNext("MapLevStream")
SetRegexStream___next__ == SearchCursorNext("SetRegexStream")
SetLevStream___next__ == SearchCursorNext("SetLevStream")

----------------------------------------------------------------------------
(* One structure, built from at most MaxCalls keys, and the searches of it  *)

\* the value given to key k when a map is built for searching
ValueFor(k) == Len(k)

RECURSIVE InsertAll(_, _, _)
InsertAll(b, ks, i) ==
    IF i > Len(ks) THEN b
    ELSE InsertAll(RawInsert(b, ks[i], ValueFor(ks[i])).b, ks, i + 1)

\* MapBuilder(None), insert of each key of S in order, finish()
BuiltMap(S) ==
    LET bytes == Serialize(InsertAll(NewRaw, SortKeys(S), 1))
    IN  [cls |-> "Map", data |-> "Vec", len |-> bytes.len, f |-> bytes.f]

InitSearch ==
    /\ file = None
    /\ \E S \in KeySets :
         \/ /\ obj = Some(BuiltMap(S))
            /\ builder = [cls |-> "MapBuilder", inner |-> None]
            /\ accepted = [i \in 1..Cardinality(S) |->
                              <<SortKeys(S)[i], ValueFor(SortKeys(S)[i])>>]
            /\ res = Ok("finish", Some("Map"))
         \/ /\ obj = Some(BuiltSet(S))
            /\ builder = [cls |-> "SetBuilder", inner |-> None]
            /\ accepted = [i \in 1..Cardinality(S) |-> <<SortKeys(S)[i], 0>>]
            /\ res = Ok("finish", Some("Set"))
    /\ other = None
    /\ calls = 0
    /\ cur = None
    /\ out = <<>>
    /\ cur2 = None
    /\ out2 = <<>>

NextSearch ==
    \/ \E valid \in BOOLEAN, dfa \in Dfas : Map_search_re(valid, dfa)
    \/ \E key \in Keys, max_dist \in 0..MaxDist : Map_search_lev(key, max_dist)
    \/ \E valid \in BOOLEAN, dfa \in Dfas : Set_search_re(valid, dfa)
    \/ \E key \in Keys, max_dist \in 0..MaxDist : Set_search_lev(key, max_dist)
    \/ MapRegexStream___next__
    \/ MapLevStream___next__
    \/ SetRegexStream___next__
    \/ SetLevStream___next__

SpecSearch == InitSearch /\ [][NextSearch]_vars

\* the Levenshtein edit distance of two strings
RECURSIVE EditDistance(_, _)
EditDistance(s, t) ==
    IF s = <<>> THEN Len(t)
    ELSE IF t = <<>> THEN Len(s)
    ELSE IF Head(s) = Head(t) THEN EditDistance(Tail(s), Tail(t))
    ELSE 1 + Min(EditDistance(Tail(s), Tail(t)),
                 Min(EditDistance(Tail(s), t), EditDistance(s, Tail(t))))

\* the state a DFA is in after the whole key, no branch cut short
RECURSIVE DfaRun(_, _, _)
DfaRun(a, st, k) ==
    IF k = <<>> THEN st ELSE DfaRun(a, a.trans[st][Head(k)], Tail(k))

DfaAccepts(a, k) == DfaRun(a, a.start, k) \in a.match

\* the stored keys among S, ascending, as a cursor of class cls hands them out
ExpectedMatches(cls, S) ==
    LET ks == SortKeys(S)
    IN  [i \in 1..Len(ks) |->
            IF cls \in {"MapRegexStream", "MapLevStream"}
            THEN <<ks[i], Unwrap(InsertedValue(ks[i]))>>
            ELSE ks[i]]

IsLevCursor == cur # None /\ Unwrap(cur).cls \in {"MapLevStream", "SetLevStream"}
IsRegexCursor == cur # None /\ Unwrap(cur).cls \in {"MapRegexStream", "SetRegexStream"}

\* C8: the cursor of search_lev(t, k), run to its end, has yielded exactly the
\* stored keys within edit distance k of t, in ascending byte order.
C8_SearchLevYields ==
    (IsLevCursor /\ Unwrap(cur).ended) =>
        out = ExpectedMatches(Unwrap(cur).cls,
                {k \in AcceptedKeys :
                    EditDistance(k, Unwrap(cur).a.query) <= Unwrap(cur).a.dist})

\* C9: the cursor of search_re, run to its end, has yielded exactly the stored
\* keys the automaton accepts as a whole, in ascending byte order.
C9_SearchReYields ==
    (IsRegexCursor /\ Unwrap(cur).ended) =>
        out = ExpectedMatches(Unwrap(cur).cls,
                {k \in AcceptedKeys : DfaAccepts(Unwrap(cur).a, k)})

----------------------------------------------------------------------------
(* Further properties of building and lookup *)

\* C12: a lookup of a missing key is no error for contains and get: whatever
\* key and default they are called with, contains returns false for an absent
\* key, get returns the stored value of a present key, the default for an
\* absent key when one was given and none otherwise, and neither call ever
\* raises; only the subscript lookup raises, and it raises KeyError.
C12_MissingKeyNotError ==
    /\ obj # None =>
          \A key \in LookupKeys :
             /\ (Lookup(key) # None) = (key \in AcceptedKeys)
             /\ \A default \in {None, Some(MaxVal + 1)} :
                   OptionOr(Lookup(key), default) =
                       IF key \in AcceptedKeys THEN InsertedValue(key) ELSE default
    /\ res.call \in {"contains", "get"} => res.tag = "Ok"
    /\ (res.call = "getitem" /\ res.tag = "Err") => res.exc = "KeyError"

\* C12 happens: get on a map that holds keys has fallen back to the default
C12_Witness ==
    /\ IsMap /\ Len(accepted) >= 2
    /\ res.call = "get" /\ res.val = Some(MaxVal + 1)

\* C14: len() of a structure a builder produced is the number of distinct keys
\* it holds: the number of final states enumeration visits and the number of
\* distinct keys among the accepted inserts, whatever inserts were rejected or
\* accepted a second time.
C14_LenCountsKeys ==
    /\ obj # None =>
          /\ inner.len = Cardinality(AcceptedKeys)
          /\ inner.len = Cardinality(FinalKeys(inner.f))
    /\ res.call = "len" => res = Ok("len", Some(Cardinality(AcceptedKeys)))

\* C14 happens: len() was asked of a set whose builder took an insert of a key
\* it already had and refused another insert
C14_Witness ==
    /\ IsSet /\ res.call = "len"
    /\ Len(accepted) > Cardinality(AcceptedKeys)
    /\ calls > Len(accepted)

\* C17: the first finish() finishes the builder whether it succeeds or fails:
\* every finish leaves the builder finished, and on a finished builder every
\* insert and every finish fails with "Builder already finished", adds no key
\* and returns no structure.
C17_FinishedByFirstFinish ==
    [][ /\ res'.call = "finish" => builder'.inner = None
        /\ builder.inner = None =>
              /\ builder' = builder
              /\ accepted' = accepted
              /\ res'.call \in {"insert", "finish"} =>
                     /\ res' = Err(res'.call, "ValueError", AlreadyFinished)
                     /\ obj' = obj /\ file' = file
      ]_vars

\* C17 happens: an insert was refused on a builder whose only finish() failed
\* (the file is still without the structure)
C17_Witness ==
    /\ builder.inner = None
    /\ file # None /\ ~Unwrap(file).complete
    /\ Len(accepted) >= 1
    /\ res = Err("insert", "ValueError", AlreadyFinished)

\* the keys of what a successful finish() produced: the structure returned
\* (memory target) or the bytes written (file target)
ProducedKeys(o, fl) ==
    IF fl = None THEN FinalKeys(Unwrap(o).f) ELSE FinalKeys(Unwrap(fl).f)

\* C18: an insert that fails on an unfinished builder (an ordering error)
\* changes nothing: the builder, with its transducer, key count and previous
\* key, is as before and stays unfinished, no key is recorded, and a later
\* successful finish() produces exactly the keys of the accepted inserts.
C18_RejectedInsertNoEffect ==
    [][ /\ (res'.call = "insert" /\ res'.tag = "Err" /\ builder.inner # None) =>
              /\ builder' = builder
              /\ accepted' = accepted
              /\ obj' = obj /\ file' = file
        /\ (res'.call = "finish" /\ res'.tag = "Ok") =>
              ProducedKeys(obj', file') = AcceptedKeys
      ]_vars

\* C18 happens: a builder that refused an insert and accepted others has
\* finished successfully
C18_Witness ==
    /\ res.call = "finish" /\ res.tag = "Ok"
    /\ calls > Len(accepted) /\ Len(accepted) >= 2

----------------------------------------------------------------------------
(* Set: is_disjoint, is_subset, is_superset.  The crate runs an operation    *)
(* stream over this set and the argument and looks at what it yields.       *)

\* self.op().add(stream): this set and the argument
PredStreams(a, b) == OpAdd(Set_op(a), b)

\* `while let Some(_) = op.next() { count += 1 }`
RECURSIVE CountOp(_, _, _)
CountOp(cls, op, n) ==
    CHOOSE x \in {IF r.item = None THEN n ELSE CountOp(cls, r.op, n + 1) :
                    r \in {OpNext(cls, op)}} : TRUE

\* Fst::is_disjoint: the intersection yields nothing
FstIsDisjoint(a, b) ==
    IntersectionNext(IntersectionNew(PredStreams(a, b))).item = None

\* FstIsSubset measuring the intersection against the argument's key count
FstIsSubsetByOther(a, b) ==
    CountOp("SetIntersection", IntersectionNew(PredStreams(a, b)), 0) = b.len

\* Fst::is_subset: the intersection has as many keys as this set
FstIsSubset(a, b) ==
    CountOp("SetIntersection", IntersectionNew(PredStreams(a, b)), 0) = a.len

\* Fst::is_superset: the union has as many keys as this set
FstIsSuperset(a, b) ==
    CountOp("SetUnion", UnionNew(PredStreams(a, b)), 0) = a.len

Set_is_disjoint ==
    /\ HasSets
    /\ res' = Ok("is_disjoint", Some(FstIsDisjoint(inner, Unwrap(other))))
    /\ UNCHANGED <<builder, file, obj, accepted, calls, cur, out, other, cur2, out2>>

Set_is_subset ==
    /\ HasSets
    /\ res' = Ok("is_subset", Some(FstIsSubset(inner, Unwrap(other))))
    /\ UNCHANGED <<builder, file, obj, accepted, calls, cur, out, other, cur2, out2>>

Set_is_superset ==
    /\ HasSets
    /\ res' = Ok("is_superset", Some(FstIsSuperset(inner, Unwrap(other))))
    /\ UNCHANGED <<builder, file, obj, accepted, calls, cur, out, other, cur2, out2>>

\* two built sets, the three predicates and the intersection cursor
NextPred ==
    \/ Set_is_disjoint
    \/ Set_is_subset
    \/ Set_is_superset
    \/ Set_intersection
    \/ SetIntersection___next__

SpecPred == InitOps /\ [][NextPred]_vars

\* C13: is_subset is true exactly when every key of A is in B, is_superset
\* exactly when every key of B is in A, is_disjoint exactly when A and B share
\* no key, which is when the cursor of A.intersection(B) yields nothing;
\* membership is what contains reports.
C13_PredicatesAgree ==
    /\ res.call = "is_subset" => res.val = Some(KeysA \subseteq KeysB)
    /\ res.call = "is_superset" => res.val = Some(KeysB \subseteq KeysA)
    /\ res.call = "is_disjoint" => res.val = Some(KeysA \cap KeysB = {})
    /\ Ended("SetIntersection") =>
          (out = <<>>) = FstIsDisjoint(inner, Unwrap(other))

\* C13 happens: is_subset was true of a set with keys and a larger set
C13_Witness ==
    /\ res.call = "is_subset" /\ res.val = Some(TRUE)
    /\ Cardinality(KeysA) >= 2 /\ KeysB \ KeysA # {}

----------------------------------------------------------------------------
(* All ten cursor classes over structures the caller keeps: one structure   *)
(* (Map or Set) with its enumerations and searches, or two sets with the    *)
(* four operations                                                         *)

InitCursors == InitSearch \/ InitOps

\* enumerations and searches of the one structure
OneStructureStep ==
    \/ Map_keys
    \/ Map_values
    \/ Map_items
    \/ Set___iter__
    \/ MapKeys___next__
    \/ MapValues___next__
    \/ MapItems___next__
    \/ SetStream___next__
    \/ NextSearch

NextCursors ==
    \/ (other = None /\ OneStructureStep)
    \/ NextOps

SpecCursors == InitCursors /\ [][NextCursors]_vars

\* the number of keys the structures behind a cursor hold
KeyCount ==
    Cardinality(FinalKeys(inner.f))
        + (IF other # None THEN Cardinality(FinalKeys(Unwrap(other).f)) ELSE 0)

----------------------------------------------------------------------------
(* Cursors that outlive the object they were made from: the caller drops    *)
(* its Map or Set (the last Python reference goes, the pyclass object is    *)
(* freed) while it holds a cursor.                                          *)

\* the Map / Set object the cursor was made from is freed
Drop_obj ==
    /\ obj # None
    /\ obj' = None
    /\ res' = Ok("del", None)
    /\ UNCHANGED <<builder, file, accepted, calls, cur, out, other, cur2, out2>>

\* the Set object that was the argument of the operation is freed
Drop_other ==
    /\ other # None
    /\ other' = None
    /\ res' = Ok("del", None)
    /\ UNCHANGED <<builder, file, obj, accepted, calls, cur, out, cur2, out2>>

\* a set and, as the argument of operations, a set of some of its keys
InitSubsets ==
    /\ builder = [cls |-> "SetBuilder", inner |-> None]
    /\ file = None
    /\ \E S \in KeySets :
         /\ obj = Some(BuiltSet(S))
         /\ \E T \in SUBSET S : other = Some(BuiltSet(T))
    /\ res = Ok("finish", Some("Set"))
    /\ accepted = <<>>
    /\ calls = 0
    /\ cur = None
    /\ out = <<>>
    /\ cur2 = None
    /\ out2 = <<>>

InitDrop == InitSearch \/ InitSubsets

NextDrop ==
    \/ NextCursors
    \/ (cur # None /\ Drop_obj)
    \/ (cur # None /\ Drop_other)

SpecDrop == InitDrop /\ [][NextDrop]_vars

\* C16: whenever a cursor is advanced, every object its stream reads through
\* a reference is alive: the byte buffer, the header fields of the structure
\* and, for search_re and search_lev, the automaton, whatever the order of
\* creating the cursor, returning from the creating call, dropping the
\* originating object and advancing.
C16_CursorRefsAlive ==
    [][ (cur # None /\ res'.call = "next") =>
            \A ref \in Unwrap(cur).refs : Alive(ref)
      ]_vars

----------------------------------------------------------------------------
(* Two cursors over one structure the caller keeps, advanced in any order,   *)
(* with lookups in between.  The second cursor is made and advanced by the  *)
(* same methods as the first; it is held in cur2.                           *)

PlainClasses == {"MapKeys", "MapValues", "MapItems", "SetStream"}

\* Map::keys / values / items and Set::__iter__, called for a second cursor
Second_new(cls) ==
    /\ IF cls = "SetStream" THEN IsSet ELSE IsMap
    /\ cur2' = Some(NewCursor(cls, AlwaysMatch))
    /\ out2' = <<>>
    /\ res' = Ok("new cursor", Some(cls))
    /\ UNCHANGED <<builder, file, obj, accepted, calls, other, cur, out>>

\* Second___next__ with the second cursor walking on the first cursor's stream
Second___next__SharedStream ==
    /\ cur2 # None /\ cur # None
    /\ \E c \in {Unwrap(cur2)} : \E r \in {StreamNext(c.f, c.a, Unwrap(cur).stream)} :
         /\ cur' = Some([Unwrap(cur) EXCEPT !.stream = r.s])
         /\ IF r.item = None
            THEN /\ cur2' = Some([c EXCEPT !.ended = TRUE])
                 /\ res' = Ok("next", None)
                 /\ UNCHANGED out2
            ELSE /\ cur2' = Some(c)
                 /\ res' = Ok("next", Some(Conv(c.cls, Unwrap(r.item))))
                 /\ out2' = Append(out2, Conv(c.cls, Unwrap(r.item)))
    /\ UNCHANGED <<builder, file, obj, accepted, calls, other, out>>

\* __next__ of the second cursor: `slf.stream.next()` on its own stream
Second___next__ ==
    /\ cur2 # None
    /\ \E c \in {Unwrap(cur2)} : \E r \in {StreamNext(c.f, c.a, c.stream)} :
         IF r.item = None
         THEN /\ cur2' = Some([c EXCEPT !.stream = r.s, !.ended = TRUE])
              /\ res' = Ok("next", None)
              /\ UNCHANGED out2
         ELSE /\ cur2' = Some([c EXCEPT !.stream = r.s])
              /\ res' = Ok("next", Some(Conv(c.cls, Unwrap(r.item))))
              /\ out2' = Append(out2, Conv(c.cls, Unwrap(r.item)))
    /\ UNCHANGED <<builder, file, obj, accepted, calls, other, cur, out>>

NextTwo ==
    \/ Map_keys
    \/ Map_values
    \/ Map_items
    \/ Set___iter__
    \/ MapKeys___next__
    \/ MapValues___next__
    \/ MapItems___next__
    \/ SetStream___next__
    \/ \E cls \in PlainClasses : Second_new(cls)
    \/ Second___next__
    \/ \E key \in LookupKeys : Map_get(key, None)
    \/ \E key \in LookupKeys : Set___contains__(key)
    \/ Map___len__
    \/ Set___len__

SpecTwo == InitSearch /\ [][NextTwo]_vars

\* what a cursor has yielded is the start of what it yields when advanced
\* alone, and all of it once the cursor has returned none
YieldsAsAlone(c, o) ==
    c # None =>
        /\ Len(o) <= Len(ExpectedOut(Unwrap(c).cls))
        /\ o = SubSeq(ExpectedOut(Unwrap(c).cls), 1, Len(o))
        /\ Unwrap(c).ended => Len(o) = Len(ExpectedOut(Unwrap(c).cls))

\* C15: cursors over the same structure are independent.  However the next
\* calls of two cursors and the lookups are interleaved, each cursor yields
\* the sequence it yields alone, lookups and len answer as before, and a next
\* changes neither the structure nor the other cursor.
C15_CursorsIndependent ==
    /\ [](/\ YieldsAsAlone(cur, out) /\ YieldsAsAlone(cur2, out2)
          /\ \A key \in LookupKeys : Lookup(key) = InsertedValue(key)
          /\ inner.len = Cardinality(AcceptedKeys))
    /\ [][ res'.call = "next" =>
              /\ obj' = obj
              /\ (cur' = cur /\ out' = out) \/ (cur2' = cur2 /\ out2' = out2)
         ]_vars

\* C15 happens: two cursors of different kinds over one map stand at different
\* places, the first at its end, the second one item in
C15_Witness ==
    /\ cur # None /\ Unwrap(cur).cls = "MapItems" /\ Unwrap(cur).ended
    /\ Len(out) = MaxCalls
    /\ cur2 # None /\ Unwrap(cur2).cls = "MapKeys" /\ Len(out2) = 1
    /\ res.call = "get"

====
